---------------------------- MODULE Spec2Model ----------------------------
(***************************************************************************)
(* A model of the eco samplers: the Dirichlet-process driver cDPeco        *)
(* (src/src/gibbsDP.c), the parametric driver cBase2C                      *)
(* (src/src/gibbsBase2C.c) and the integrator of src/src/fintegrate.c.     *)
(*                                                                         *)
(* Numbers.  A double is modelled by an exact rational <<n, d>> with d > 0 *)
(* in lowest terms, extended by the IEEE specials +Inf = <<1, 0>>,         *)
(* -Inf = <<-1, 0>> and NaN = <<0, 0>>.  Rounding error (about 1e-16       *)
(* relative) is not modelled.  A value that went through a transcendental  *)
(* function is a tagged triple <<tag, n, d>>: <<"q", n, d>> is the plain   *)
(* number n/d, <<"logit", n, d>> is logit(n/d), and so on.                 *)
(***************************************************************************)
EXTENDS Integers, Sequences, FiniteSets, TLC

(***************************************************************************)
(* Rational arithmetic with IEEE specials                                  *)
(***************************************************************************)
Abs(n) == IF n < 0 THEN -n ELSE n

Sgn(n) == IF n < 0 THEN -1 ELSE IF n > 0 THEN 1 ELSE 0

RECURSIVE Gcd(_, _)
Gcd(a, b) == IF b = 0 THEN a ELSE Gcd(b, a % b)

Norm(n, d) ==
  IF d = 0 THEN <<Sgn(n), 0>>
  ELSE LET s == IF d < 0 THEN -1 ELSE 1
           g == Gcd(Abs(n), Abs(d))
       IN  <<(s * n) \div g, (s * d) \div g>>

Q(n, d) == Norm(n, d)

PInf == <<1, 0>>
NInf == <<-1, 0>>
NaN == <<0, 0>>

IsNaN(a) == a[2] = 0 /\ a[1] = 0
IsFinite(a) == a[2] # 0

QNeg(a) == <<-a[1], a[2]>>

QAdd(a, b) ==
  IF IsNaN(a) \/ IsNaN(b) THEN NaN
  ELSE IF a[2] = 0 /\ b[2] = 0 THEN (IF a[1] = b[1] THEN a ELSE NaN)
  ELSE IF a[2] = 0 THEN a
  ELSE IF b[2] = 0 THEN b
  ELSE Norm(a[1] * b[2] + b[1] * a[2], a[2] * b[2])

QSub(a, b) == QAdd(a, QNeg(b))

QMul(a, b) == Norm(a[1] * b[1], a[2] * b[2])

\* 1/a; 1/(+0) is +Inf, 1/Inf is 0.
QRecip(a) ==
  IF a[1] < 0 THEN <<-a[2], -a[1]>>
  ELSE IF a[1] = 0 THEN (IF a[2] = 0 THEN NaN ELSE PInf)
  ELSE <<a[2], a[1]>>

QDiv(a, b) == QMul(a, QRecip(b))

\* a < b as C compares doubles: false when either side is NaN.
QLt(a, b) ==
  IF IsNaN(a) \/ IsNaN(b) THEN FALSE
  ELSE IF a[2] = 0 /\ b[2] = 0 THEN a[1] < b[1]
  ELSE a[1] * b[2] < b[1] * a[2]

QGt(a, b) == QLt(b, a)

QInt(k) == <<k, 1>>

\* Rmath fmax2 / fmin2: NaN if either argument is NaN.
fmax2(x, y) == IF IsNaN(x) \/ IsNaN(y) THEN NaN ELSE IF QLt(x, y) THEN y ELSE x

fmin2(x, y) == IF IsNaN(x) \/ IsNaN(y) THEN NaN ELSE IF QLt(x, y) THEN x ELSE y

\* Rmath ftrunc of a finite non-negative value, as the int it is assigned to.
ftrunc(a) == a[1] \div a[2]


(***************************************************************************)
(* Tagged values: results of the link transforms                           *)
(***************************************************************************)
V(q) == <<"q", q[1], q[2]>>

Rat(v) == <<v[2], v[3]>>

VNaN == V(NaN)

IsPlain(v) == v[1] = "q"

\* A plain number strictly inside (0,1).
InUnit(q) == QLt(QInt(0), q) /\ QLt(q, QInt(1))

\* f(w) for a plain w, where f maps (0,1) onto the reals, 0 to -Inf and 1 to
\* +Inf, and is NaN elsewhere (log of a negative number).
LinkOfPlain(tag, q) ==
  IF IsNaN(q) THEN VNaN
  ELSE IF InUnit(q) THEN <<tag, q[1], q[2]>>
  ELSE IF q = QInt(0) THEN V(NInf)
  ELSE IF q = QInt(1) THEN V(PInf)
  ELSE VNaN

\* log(w) - log(1 - w)
Logit(w) ==
  IF w[1] = "invlogit" THEN V(Rat(w))
  ELSE IF IsPlain(w) THEN LinkOfPlain("logit", Rat(w))
  ELSE <<"opaque", 0, 0>>

\* qnorm(w, 0, 1, 1, 0)
Probit(w) == IF IsPlain(w) THEN LinkOfPlain("probit", Rat(w)) ELSE <<"opaque", 0, 0>>

\* -log(-log(w))
Cloglog(w) == IF IsPlain(w) THEN LinkOfPlain("cloglog", Rat(w)) ELSE <<"opaque", 0, 0>>

\* exp(s) / (1 + exp(s)): Inf/Inf is NaN at s = +Inf, 0 at s = -Inf.
InvLogit(s) ==
  IF s[1] = "logit" THEN V(Rat(s))
  ELSE IF IsPlain(s) THEN
         (IF IsNaN(Rat(s)) THEN VNaN
          ELSE IF Rat(s) = PInf THEN VNaN
          ELSE IF Rat(s) = NInf THEN V(QInt(0))
          ELSE <<"invlogit", s[2], s[3]>>)
  ELSE <<"opaque", 0, 0>>

\* The transform the link selector picks (lines 390-401); no branch is taken
\* for a selector outside 1..3, which leaves Wstar as it was.
LinkW(link, w, old) ==
  IF link = 1 THEN Logit(w)
  ELSE IF link = 2 THEN Probit(w)
  ELSE IF link = 3 THEN Cloglog(w)
  ELSE old

\* A value is a real number (not NaN, not infinite, not opaque).
IsReal(v) == v[1] # "opaque" /\ v[3] # 0

(***************************************************************************)
(* cDPeco: bounds and grids (lines 260-302)                                *)
(***************************************************************************)
n_step == 1000

\* dtemp = (double) 1 / n_step
GridStep == Q(1, n_step)

\* Faulty variant: the test reads column 0 (X) instead of column 1 (Y)
OnTomoLineX(Xi) == Xi[0] # QInt(0) /\ Xi[0] # QInt(1)

\* X[i][1] != 0 && X[i][1] != 1  (column 1 of the packed data is Y)
OnTomoLine(Xi) == Xi[1] # QInt(0) /\ Xi[1] # QInt(1)

MinW1(Xi) == fmax2(QInt(0), QDiv(QSub(QAdd(Xi[0], Xi[1]), QInt(1)), Xi[0]))

MaxW1(Xi) == fmin2(QInt(1), QDiv(Xi[1], Xi[0]))

WideGrid(Xi) == QGt(QSub(MaxW1(Xi), MinW1(Xi)), QMul(QInt(2), GridStep))

NGrid(Xi) ==
  IF WideGrid(Xi) THEN ftrunc(QMul(QSub(MaxW1(Xi), MinW1(Xi)), QInt(n_step))) ELSE 2

Resid(Xi) == QSub(QSub(MaxW1(Xi), MinW1(Xi)), QMul(QInt(NGrid(Xi)), GridStep))

\* W1g[i][j] of the wide branch, with the two inward nudges
W1gWide(Xi, j) ==
  LET half == QDiv(Resid(Xi), QInt(2))
      g0 == QSub(QAdd(MinW1(Xi), QMul(QInt(j + 1), GridStep)),
                 QDiv(QAdd(GridStep, Resid(Xi)), QInt(2)))
      g1 == IF QLt(QSub(g0, MinW1(Xi)), half) THEN QAdd(g0, half) ELSE g0
  IN  IF QLt(QSub(MaxW1(Xi), g1), half) THEN QSub(g1, half) ELSE g1

\* W1g[i][j] of the narrow branch: the two probe points at the thirds
W1gNarrow(Xi, j) ==
  QAdd(MinW1(Xi), QDiv(QMul(QInt(j + 1), QSub(MaxW1(Xi), MinW1(Xi))), QInt(3)))

GridW1(Xi, j) == IF WideGrid(Xi) THEN W1gWide(Xi, j) ELSE W1gNarrow(Xi, j)

\* Faulty variant: the division is by X instead of 1 - X
GridW2ByX(Xi, w1) == QDiv(QSub(Xi[1], QMul(Xi[0], w1)), Xi[0])

\* W2g[i][j] = (X[i][1] - X[i][0] * W1g[i][j]) / (1 - X[i][0])
GridW2(Xi, w1) == QDiv(QSub(Xi[1], QMul(Xi[0], w1)), QSub(QInt(1), Xi[0]))

(***************************************************************************)
(* State                                                                   *)
(***************************************************************************)
VARIABLES
  prog,          \* which entry point runs: "cDPeco", "cBase2C"
  arg,           \* the argument block of the call
  heap,          \* what a read of never-written malloc'ed memory returns
  pc,            \* position in the entry point
  main_loop,     \* outer iteration counter
  i,             \* unit index of the running inner loop
  W, Wstar,      \* latent pairs and their transforms, [unit][0..1]
  n_grid, W1g, W2g,   \* grid sizes and grid points per unit
  prob_grid_cum, \* normalised cumulative grid weights of the last grid draw
  dtemp,         \* the uniform variate of the last inverse-CDF draw
  j,             \* the index that draw ended on
  mu, Sigma, InvSigma,  \* per-unit cluster parameters (draw outcomes)
  C, nstar, sortC, indexC,
  alpha,
  itempA, itempS, itempC,
  itempM, itempW,       \* cBase2C: fill indices of pdSmu and pdSW
  pdSa, pdSn,    \* output arrays of alpha and nstar: index -> stored value
  mu_mix,        \* history: label -> parameter drawn for it in the current remix
  ndraw,         \* history: grid draws made per unit
  flushAt,       \* history: the iterations at which storage was flushed
  polls,         \* history: interrupt polls made so far
  result, ier,   \* paramIntegration: the estimate and status Rdqags left
  ret,           \* paramIntegration: the value returned, <<>> before the return
  diag,          \* history: diagnostics printed by paramIntegration
  stdin,         \* the console input: "empty", "line" or "eof"
  rng,           \* history: calls of GetRNGstate and PutRNGstate so far
  sortC_read,    \* history: indices at which the block scans of the current
                 \* remix pass evaluated sortC[.]
  qq,            \* normalised cumulative urn weights of the last sweep step
  k_draw, itemp, \* cBase2C: k and itemp of the rejection sampler (draws made
                 \* for the unit, bounds the last draw broke)
  caseP,         \* integrand: the case record (X, Y, suff, Wbounds)
  t_node,        \* SuffExp: the node array t, overwritten by integrand values
  ii,            \* SuffExp: the node index
  Wt             \* SuffExp: the pairs (W1(t), W2(t)) of the nodes done so far

\* The state of the two Gibbs drivers
dvars == <<main_loop, i, W, Wstar, n_grid, W1g, W2g,
           prob_grid_cum, dtemp, j, mu, Sigma, InvSigma, C, nstar, sortC,
           indexC, alpha, itempA, itempS, itempC, itempM, itempW, pdSa, pdSn,
           mu_mix, ndraw, flushAt, polls>>

\* The state of the integrator
ivars == <<result, ier, ret, diag, stdin>>

\* The retry state of the cBase2C rejection sampler
bvars == <<k_draw, itemp>>

\* The state of the integrand SuffExp
svars == <<caseP, t_node, ii, Wt>>

vars == <<prog, arg, heap, pc, dvars, ivars, rng, sortC_read, qq, bvars, svars>>

(***************************************************************************)
(* Bounds of the model and the inputs it enumerates                        *)
(***************************************************************************)
MaxGen == 5      \* outer iterations of the timing runs
MaxNth == 2      \* thinning interval of the timing runs
NTheta == 2      \* distinct outcomes of a parameter draw

Pair(x, y) == (0 :> x @@ 1 :> y)

Arr(seq) == [k \in 0..(Len(seq) - 1) |-> seq[k + 1]]

\* Units (X_i, Y_i)
UnitY0 == Pair(Q(1, 2), QInt(0))        \* Y = 0: both W at the low sentinel
UnitY1 == Pair(Q(1, 2), QInt(1))        \* Y = 1: both W at the high sentinel
UnitNarrow == Pair(Q(1, 2), Q(1, 1000)) \* width 0.002: the two probe points
UnitFour == Pair(Q(3, 4), Q(3, 1000))   \* width 0.004: four grid points
UnitResid == Pair(Q(1, 4), Q(7, 8000))  \* width 0.0035: three points, residual
UnitX0 == Pair(QInt(0), Q(1, 2))        \* X = 0, 0 < Y < 1
UnitX1 == Pair(QInt(1), Q(1, 2))        \* X = 1, 0 < Y < 1

\* Uniform variates, draws of a Normal, values of uninitialised memory
UVals == {Q(1, 4), Q(1, 2), Q(3, 4)}
ZVals == {V(QInt(-1)), V(QInt(2))}
HeapVals == {V(QInt(0)), V(QInt(5))}
ThetaVals == 1..NTheta

DPArg(pdX, link, n_gen, burn_in, nth, upd, x1W, x0W, surW) ==
  [n_gen |-> n_gen, link |-> link, pdX |-> Arr(pdX), n_samp |-> Len(pdX),
   pinUpdate |-> upd, burn_in |-> burn_in, nth |-> nth,
   a0 |-> QInt(1), b0 |-> Q(1, 10),
   survey |-> IF Len(surW) > 0 THEN 1 ELSE 0, sur_samp |-> Len(surW), sur_W |-> Arr(surW),
   x1 |-> IF Len(x1W) > 0 THEN 1 ELSE 0, sampx1 |-> Len(x1W), x1_W1 |-> Arr(x1W),
   x0 |-> IF Len(x0W) > 0 THEN 1 ELSE 0, sampx0 |-> Len(x0W), x0_W2 |-> Arr(x0W)]

\* Runs that exercise burn-in and thinning on one unit
TimingArgs ==
  {DPArg(<<UnitY0>>, 1, g, b, n, u, <<>>, <<>>, <<>>) :
     g \in 0..MaxGen, b \in 0..MaxGen, n \in 1..MaxNth, u \in {0, 1}}

\* Runs that exercise the grid on one unit
GridArgs ==
  {DPArg(<<x>>, 1, 1, 0, 1, 0, <<>>, <<>>, <<>>) :
     x \in {UnitNarrow, UnitFour, UnitResid, UnitX0, UnitX1, UnitY1}}
  \cup {DPArg(<<UnitNarrow>>, l, 2, 0, 1, 0, <<>>, <<>>, <<>>) : l \in 2..3}

\* Runs with several units: homogeneous areas, survey data, two iterations
MixArgs ==
  {DPArg(<<UnitY0>>, 1, 1, 0, 1, 0, <<Q(1, 4)>>, <<QInt(0)>>, <<>>),
   DPArg(<<UnitY0>>, 1, 1, 0, 1, 0, <<>>, <<Q(1, 3)>>, <<>>),
   DPArg(<<UnitY0>>, 2, 1, 0, 1, 0, <<QInt(1)>>, <<>>, <<Pair(Q(1, 5), QInt(0))>>),
   DPArg(<<UnitY0, UnitNarrow>>, 1, 1, 0, 1, 0, <<>>, <<>>, <<>>)}
  \cup {DPArg(<<UnitY0, UnitY1>>, 1, 2, 0, 1, u, <<>>, <<>>, <<>>) : u \in {0, 1}}

DPArgs == {a \in TimingArgs : a.burn_in <= a.n_gen} \cup GridArgs \cup MixArgs

(***************************************************************************)
(* cDPeco: set-up (lines 126-336)                                          *)
(***************************************************************************)
n_samp == arg.n_samp
x1_samp == arg.sampx1
x0_samp == arg.sampx0
s_samp == arg.sur_samp
t_samp == n_samp + x1_samp + x0_samp + s_samp

Units == 0..(t_samp - 1)

LowSentinel == Q(1, 1000000)
HighSentinel == Q(999999, 1000000)

\* if (w == 0) w = 0.000001; if (w == 1) w = 0.999999;
Clamp(q) == IF q = QInt(0) THEN LowSentinel ELSE IF q = QInt(1) THEN HighSentinel ELSE q

\* W after lines 199-242
InitW(a, h) ==
  LET n == a.n_samp
      n1 == n + a.sampx1
      n0 == n1 + a.sampx0
      t == n0 + a.sur_samp
  IN  [u \in 0..(t - 1) |->
        [k \in 0..1 |->
          IF u < n THEN
            (IF a.pdX[u][1] = QInt(0) THEN V(LowSentinel)
             ELSE IF a.pdX[u][1] = QInt(1) THEN V(HighSentinel)
             ELSE V(QInt(0)))
          ELSE IF u < n1 THEN
            (IF a.x1 = 1 /\ k = 0 THEN V(Clamp(a.x1_W1[u - n])) ELSE h)
          ELSE IF u < n0 THEN
            (IF a.x0 = 1 /\ k = 1 THEN V(Clamp(a.x0_W2[u - n1])) ELSE h)
          ELSE
            (IF a.survey = 1 THEN V(Clamp(a.sur_W[u - n0][k])) ELSE h)]]

\* Wstar after lines 199-242: the known coordinates always go through the logit
InitWstar(a, h) ==
  LET n == a.n_samp
      n1 == n + a.sampx1
      n0 == n1 + a.sampx0
      t == n0 + a.sur_samp
      w == InitW(a, h)
  IN  [u \in 0..(t - 1) |->
        [k \in 0..1 |->
          IF u < n THEN V(QInt(0))
          ELSE IF u < n1 THEN (IF a.x1 = 1 /\ k = 0 THEN Logit(w[u][k]) ELSE h)
          ELSE IF u < n0 THEN (IF a.x0 = 1 /\ k = 1 THEN Logit(w[u][k]) ELSE h)
          ELSE (IF a.survey = 1 THEN Logit(w[u][k]) ELSE h)]]

\* n_grid after lines 269-302; 0 stands for an entry the loop never assigns
InitNGrid(a) ==
  [u \in 0..(a.n_samp - 1) |-> IF OnTomoLine(a.pdX[u]) THEN NGrid(a.pdX[u]) ELSE 0]

InitW1g(a) ==
  [u \in 0..(a.n_samp - 1) |->
     [g \in 0..(InitNGrid(a)[u] - 1) |-> GridW1(a.pdX[u], g)]]

InitW2g(a) ==
  [u \in 0..(a.n_samp - 1) |->
     [g \in 0..(InitNGrid(a)[u] - 1) |-> GridW2(a.pdX[u], GridW1(a.pdX[u], g))]]

Idle == <<>>

\* No random-stream call, no scan, no sampler and no integrand has run
RestIdle ==
  /\ rng = [get |-> 0, put |-> 0]
  /\ sortC_read = {}
  /\ qq = Idle
  /\ k_draw = 0 /\ itemp = 0
  /\ caseP = Idle /\ t_node = Idle /\ ii = 0 /\ Wt = Idle

\* The integrator is not running
IntIdle == result = QInt(0) /\ ier = 0 /\ ret = Idle /\ diag = 0 /\ stdin = "empty"

InitDP ==
  /\ prog = "cDPeco"
  /\ arg \in DPArgs
  /\ heap \in (IF n_samp < t_samp THEN HeapVals ELSE {V(QInt(0))})
  /\ pc = "start"
  /\ main_loop = 0 /\ i = 0
  /\ W = Idle /\ Wstar = Idle
  /\ n_grid = Idle /\ W1g = Idle /\ W2g = Idle
  /\ prob_grid_cum = Idle /\ dtemp = QInt(0) /\ j = 0
  /\ mu = Idle /\ Sigma = Idle /\ InvSigma = Idle
  /\ C = Idle /\ nstar = 0 /\ sortC = Idle /\ indexC = Idle
  /\ alpha = QInt(1)
  /\ itempA = 0 /\ itempS = 0 /\ itempC = 0
  /\ pdSa = Idle /\ pdSn = Idle
  /\ mu_mix = Idle /\ ndraw = Idle /\ flushAt = <<>> /\ polls = 0
  /\ itempM = 0 /\ itempW = 0
  /\ IntIdle
  /\ RestIdle

\* Lines 126-336: GetRNGstate() (line 127), then the data, the grids and the
\* initial parameters
Setup ==
  /\ prog = "cDPeco" /\ pc = "start"
  /\ W' = InitW(arg, heap)
  /\ Wstar' = InitWstar(arg, heap)
  /\ n_grid' = InitNGrid(arg)
  /\ W1g' = InitW1g(arg)
  /\ W2g' = InitW2g(arg)
  /\ \E th \in [Units -> ThetaVals] :
       /\ InvSigma' = th
       /\ Sigma' = th
       /\ mu' = th
  /\ nstar' = t_samp
  /\ C' = [u \in Units |-> u]
  /\ sortC' = [u \in Units |-> 0]
  /\ indexC' = [u \in Units |-> 0]
  /\ ndraw' = [u \in 0..(n_samp - 1) |-> 0]
  /\ itempA' = 0 /\ itempS' = 0 /\ itempC' = 0
  /\ pc' = "loop"
  /\ rng' = [rng EXCEPT !.get = @ + 1]
  /\ UNCHANGED <<prog, arg, heap, sortC_read, qq, bvars, svars, main_loop, i, prob_grid_cum, dtemp, j, alpha,
                 pdSa, pdSn, mu_mix, flushAt, polls, itempM, itempW, ivars>>

(***************************************************************************)
(* Inverse-CDF draws (lines 344-386 and 436-455)                           *)
(***************************************************************************)
\* Running sums base + p[lo], base + p[lo] + p[lo+1], ... as a sequence.
RECURSIVE RunningSums(_, _, _, _)
RunningSums(p, lo, hi, base) ==
  IF lo > hi THEN <<>>
  ELSE IF lo = hi THEN <<QAdd(base, p[lo])>>
  ELSE LET mid == (lo + hi) \div 2
           left == RunningSums(p, lo, mid, base)
       IN  left \o RunningSums(p, mid + 1, hi, left[Len(left)])

\* Faulty variant: the running sums are left unnormalised
CumulateRaw(p, n) ==
  LET run == RunningSums(p, 0, n - 1, QInt(0))
  IN  [k \in 0..(n - 1) |-> run[k + 1]]

\* dtemp += p[j]; cum[j] = dtemp;  then  cum[j] /= dtemp  for every j
Cumulate(p, n) ==
  LET run == RunningSums(p, 0, n - 1, QInt(0))
  IN  [k \in 0..(n - 1) |-> QDiv(run[k + 1], run[n])]

\* The least k in lo..hi at which the scan stops, or -1: the scan goes on
\* while u > cum[k] and k < last.
RECURSIVE FirstStop(_, _, _, _, _)
FirstStop(cum, u, lo, hi, last) ==
  IF lo > hi THEN -1
  ELSE IF lo = hi THEN (IF QGt(u, cum[lo]) /\ lo < last THEN -1 ELSE lo)
  ELSE LET mid == (lo + hi) \div 2
           l == FirstStop(cum, u, lo, mid, last)
       IN  IF l # -1 THEN l ELSE FirstStop(cum, u, mid + 1, hi, last)

\* j = 0; while ((dtemp > prob_grid_cum[j]) && (j < n_grid[i] - 1)) j++;
GridScan(cum, u, n) == FirstStop(cum, u, 0, n - 1, n - 1)

\* j = 0; while (dtemp > qq[j]) j++;   (no bound on j; n when it runs off)
UrnScan(cum, u, n) ==
  LET k == FirstStop(cum, u, 0, n - 1, n)
  IN  IF k = -1 THEN n ELSE k

MaxFullGrid == 4   \* grids up to this size get every weight vector

PVals == {QInt(0), QInt(1)}

\* Unnormalised weights exp(log density - log Jacobian) over a grid: NaN where
\* a grid coordinate is outside (0,1), else a non-negative number.
GridWeights(w1, w2, n) ==
  LET ok(g) == InUnit(w1[g]) /\ InUnit(w2[g])
      mask(p) == [g \in 0..(n - 1) |-> IF ok(g) THEN p[g] ELSE NaN]
  IN  IF n <= MaxFullGrid
      THEN {mask(p) : p \in [0..(n - 1) -> PVals]}
      ELSE {mask([g \in 0..(n - 1) |-> IF g = k THEN QInt(1) ELSE QInt(0)]) :
              k \in {0, n \div 2, n - 1}}
           \cup {mask([g \in 0..(n - 1) |-> QInt(1)])}

(***************************************************************************)
(* cDPeco: the main loop (lines 338-632)                                   *)
(***************************************************************************)
X == arg.pdX

Iterate ==
  /\ prog = "cDPeco" /\ pc = "loop" /\ main_loop < arg.n_gen
  /\ pc' = "latent" /\ i' = 0
  /\ UNCHANGED <<prog, arg, heap, rng, sortC_read, qq, bvars, svars, main_loop, W, Wstar, n_grid, W1g, W2g,
                 prob_grid_cum, dtemp, j, mu, Sigma, InvSigma, C, nstar, sortC,
                 indexC, alpha, itempA, itempS, itempC, pdSa, pdSn, mu_mix,
                 ndraw, flushAt, polls, itempM, itempW, ivars>>

\* Lines 341-403 for one unit i < n_samp
LatentUnit ==
  /\ prog = "cDPeco" /\ pc = "latent" /\ i < n_samp
  /\ IF OnTomoLine(X[i])
     THEN \E p \in GridWeights(W1g[i], W2g[i], n_grid[i]), u \in UVals :
            LET cum == Cumulate(p, n_grid[i])
                jj == GridScan(cum, u, n_grid[i])
            IN  /\ prob_grid_cum' = cum
                /\ dtemp' = u
                /\ j' = jj
                /\ W' = [W EXCEPT ![i] = Pair(V(W1g[i][jj]), V(W2g[i][jj]))]
                /\ ndraw' = [ndraw EXCEPT ![i] = @ + 1]
     ELSE UNCHANGED <<prob_grid_cum, dtemp, j, W, ndraw>>
  /\ Wstar' = [Wstar EXCEPT ![i] =
                 [k \in 0..1 |-> LinkW(arg.link, W'[i][k], Wstar[i][k])]]
  /\ i' = i + 1
  /\ pc' = IF i + 1 < n_samp THEN "latent" ELSE "x1"
  /\ UNCHANGED <<prog, arg, heap, rng, sortC_read, qq, bvars, svars, main_loop, n_grid, W1g, W2g, mu, Sigma,
                 InvSigma, C, nstar, sortC, indexC, alpha, itempA, itempS,
                 itempC, pdSa, pdSn, mu_mix, flushAt, polls, itempM, itempW, ivars>>

\* Set cell [u][k] of a [unit][0..1] array
Set2(A, u, k, v) == [A EXCEPT ![u] = [@ EXCEPT ![k] = v]]

\* Lines 406-416 for x1 unit number n (0-based), with z the Normal draw
X1Step(WW, n, z) ==
  LET ws == Set2(WW[2], n_samp + n, 1, z)
  IN  <<Set2(WW[1], n_samp + n, 1, InvLogit(ws[n_samp + n][1])), ws>>

\* Lines 420-430 for x0 unit number n (0-based), with z the Normal draw
X0Step(WW, n, z) ==
  LET ws == Set2(WW[2], n_samp + n, 0, z)
  IN  <<Set2(WW[1], n_samp + x1_samp + n, 0, InvLogit(ws[n_samp + x1_samp + n][0])), ws>>

RECURSIVE X1Loop(_, _, _)
X1Loop(WW, n, zs) == IF n >= x1_samp THEN WW ELSE X1Loop(X1Step(WW, n, zs[n]), n + 1, zs)

RECURSIVE X0Loop(_, _, _)
X0Loop(WW, n, zs) == IF n >= x0_samp THEN WW ELSE X0Loop(X0Step(WW, n, zs[n]), n + 1, zs)

UpdateX1 ==
  /\ prog = "cDPeco" /\ pc = "x1"
  /\ IF arg.x1 = 1
     THEN \E zs \in [0..(x1_samp - 1) -> ZVals] :
            LET r == X1Loop(<<W, Wstar>>, 0, zs)
            IN  W' = r[1] /\ Wstar' = r[2]
     ELSE UNCHANGED <<W, Wstar>>
  /\ pc' = "x0"
  /\ UNCHANGED <<prog, arg, heap, rng, sortC_read, qq, bvars, svars, main_loop, i, n_grid, W1g, W2g, prob_grid_cum,
                 dtemp, j, mu, Sigma, InvSigma, C, nstar, sortC, indexC, alpha,
                 itempA, itempS, itempC, pdSa, pdSn, mu_mix, ndraw, flushAt, polls, itempM, itempW, ivars>>

UpdateX0 ==
  /\ prog = "cDPeco" /\ pc = "x0"
  /\ IF arg.x0 = 1
     THEN \E zs \in [0..(x0_samp - 1) -> ZVals] :
            LET r == X0Loop(<<W, Wstar>>, 0, zs)
            IN  W' = r[1] /\ Wstar' = r[2]
     ELSE UNCHANGED <<W, Wstar>>
  /\ pc' = "sweep" /\ i' = 0
  /\ UNCHANGED <<prog, arg, heap, rng, sortC_read, qq, bvars, svars, main_loop, n_grid, W1g, W2g, prob_grid_cum,
                 dtemp, j, mu, Sigma, InvSigma, C, nstar, sortC, indexC, alpha,
                 itempA, itempS, itempC, pdSa, pdSn, mu_mix, ndraw, flushAt, polls, itempM, itempW, ivars>>

QVals == {QInt(0), QInt(1)}

\* Faulty variant: the sweep visits every other unit
NextUnitSkip(u) == u + 2

\* for (i=0; i<t_samp; i++)   (line 434)
NextUnit(u) == u + 1

\* Faulty variant: the new label is the one handed out last
NewLabelStale == nstar - 1

\* Faulty variant: the baseline draw is the last candidate of the urn
NewBranchLast(u) == t_samp - 1

\* The index that stands for a draw from the posterior baseline in the urn
\* of unit u: q[j] is the baseline weight when j == i (lines 439-442) and the
\* baseline branch is taken when j == i (line 459)
NewBranch(u) == u

\* The weight vector q of unit u (lines 437-445): a density value for every
\* other unit and alpha times a density value in position u itself.  The
\* densities are NaN when Wstar[u] is not a pair of real numbers.
UrnWeights(u) ==
  IF IsReal(Wstar[u][0]) /\ IsReal(Wstar[u][1])
  THEN {[k \in Units |-> IF k = NewBranch(u) THEN QMul(alpha, d[k]) ELSE d[k]] :
          d \in [Units -> QVals]}
  ELSE {[k \in Units |-> NaN]}

\* C[i] = nstar  in the branch j == i (line 479)
NewLabel == nstar

\* Lines 434-495 for one unit i < t_samp
SweepUnit ==
  /\ prog = "cDPeco" /\ pc = "sweep" /\ i < t_samp
  /\ \E q \in UrnWeights(i), u \in UVals :
       LET cum == Cumulate(q, t_samp)
           jj == UrnScan(cum, u, t_samp)
       IN  /\ dtemp' = u
           /\ qq' = cum
           /\ j' = jj
           /\ IF jj = NewBranch(i)
              THEN \E th \in ThetaVals :
                     /\ InvSigma' = [InvSigma EXCEPT ![i] = th]
                     /\ Sigma' = [Sigma EXCEPT ![i] = th]
                     /\ mu' = [mu EXCEPT ![i] = th]
                     /\ C' = [C EXCEPT ![i] = NewLabel]
                     /\ nstar' = nstar + 1
              ELSE /\ jj < t_samp
                   /\ mu' = [mu EXCEPT ![i] = mu[jj]]
                   /\ Sigma' = [Sigma EXCEPT ![i] = Sigma[jj]]
                   /\ InvSigma' = [InvSigma EXCEPT ![i] = InvSigma[jj]]
                   /\ C' = [C EXCEPT ![i] = C[jj]]
                   /\ nstar' = nstar
  /\ sortC' = [sortC EXCEPT ![i] = C'[i]]
  /\ i' = NextUnit(i)
  /\ pc' = IF NextUnit(i) < t_samp THEN "sweep" ELSE "remix"
  /\ UNCHANGED <<prog, arg, heap, rng, sortC_read, bvars, svars, main_loop, W, Wstar, n_grid, W1g, W2g,
                 prob_grid_cum, alpha, indexC, itempA, itempS, itempC, pdSa,
                 pdSn, mu_mix, ndraw, flushAt, polls, itempM, itempW, ivars>>

\* The orders R_qsort_int_I may leave: sortC ascending, indexC permuted with it
SortedOrders(sc) ==
  {p \in [Units -> Units] :
     /\ \A a, b \in Units : a # b => p[a] # p[b]
     /\ \A a, b \in Units : a < b => sc[p[a]] <= sc[p[b]]}

\* Faulty variant: the count is not reset before the blocks are counted
RemixStartCountStale == nstar

\* nstar = 0  (line 502)
RemixStartCount == 0

\* Lines 498-503.  The scratch array qq is dead once the sweep is over (the
\* next sweep writes every entry at lines 444-448 before it reads one), so its
\* contents are dropped here.
RemixSort ==
  /\ prog = "cDPeco" /\ pc = "remix"
  /\ \E p \in SortedOrders(sortC) :
       /\ indexC' = p
       /\ sortC' = [k \in Units |-> sortC[p[k]]]
  /\ nstar' = RemixStartCount
  /\ i' = 0
  /\ mu_mix' = <<>>
  /\ pc' = "remixloop"
  /\ sortC_read' = {}
  /\ qq' = Idle
  /\ UNCHANGED <<prog, arg, heap, rng, bvars, svars, main_loop, W, Wstar, n_grid, W1g, W2g,
                 prob_grid_cum, dtemp, j, mu, Sigma, InvSigma, C, alpha, itempA,
                 itempS, itempC, pdSa, pdSn, ndraw, flushAt, polls, itempM, itempW, ivars>>

\* First position after the block of equal labels that starts at position b
\* (lines 513-525)
RECURSIVE BlockEnd(_, _)
BlockEnd(b, e) ==
  IF e < t_samp /\ sortC[e] = sortC[b] THEN BlockEnd(b, e + 1) ELSE e

\* The indices at which the scan of the block that starts at position b
\* evaluates sortC[.]: line 513 reads sortC[b], and the loop test of line 517,
\* (sortC[i]==j) && (i<t_samp), reads sortC[i] before it compares i with
\* t_samp, so the test that ends the last block reads sortC[t_samp].  Whatever
\* that read returns, the test is false there because i < t_samp is.
ScanReads(b) == b..BlockEnd(b, b)

\* label[0..nj-1] of the block that starts at position b
BlockLabel(b) == {indexC[k] : k \in b..(BlockEnd(b, b) - 1)}

\* Faulty variant: the block keeps the label it was sorted by
RemixLabelStale == sortC[i]

\* C[label[j]] = nstar  (line 563)
RemixLabel == nstar

\* Lines 506-573 for one block of equal labels
RemixGroup ==
  /\ prog = "cDPeco" /\ pc = "remixloop" /\ i < t_samp
  /\ \E th \in ThetaVals :
       LET members == BlockLabel(i)
       IN  /\ C' = [u \in Units |-> IF u \in members THEN RemixLabel ELSE C[u]]
           /\ mu' = [u \in Units |-> IF u \in members THEN th ELSE mu[u]]
           /\ Sigma' = [u \in Units |-> IF u \in members THEN th ELSE Sigma[u]]
           /\ InvSigma' = [u \in Units |-> IF u \in members THEN th ELSE InvSigma[u]]
           /\ mu_mix' = Append(mu_mix, th)
  /\ nstar' = nstar + 1
  /\ i' = BlockEnd(i, i)
  /\ pc' = IF BlockEnd(i, i) < t_samp THEN "remixloop" ELSE "alpha"
  /\ sortC_read' = sortC_read \cup ScanReads(i)
  /\ UNCHANGED <<prog, arg, heap, rng, qq, bvars, svars, main_loop, W, Wstar, n_grid, W1g, W2g,
                 prob_grid_cum, dtemp, j, sortC, indexC, alpha, itempA, itempS,
                 itempC, pdSa, pdSn, ndraw, flushAt, polls, itempM, itempW, ivars>>

LVals == {Q(1, 2), QInt(3)}         \* values of -log(eta), eta in (0,1)
GammaVals == {Q(1, 2), QInt(2)}     \* values of a Gamma variate

\* Rmath rgamma(a, scale): NaN for a < 0 or scale <= 0, 0 for a = 0
rgamma(a, scale) ==
  IF IsNaN(a) \/ IsNaN(scale) \/ QLt(a, QInt(0)) \/ ~QGt(scale, QInt(0)) THEN {NaN}
  ELSE IF a = QInt(0) THEN {QInt(0)}
  ELSE GammaVals

\* Faulty variant: the log is added to b0
AlphaRateNeg(l) == QSub(arg.b0, l)

\* dtemp = b0 - log(rbeta(alpha+1, t_samp)), l being -log of the Beta variate
\* (line 579)
AlphaRate(l) == QAdd(arg.b0, l)

\* Whether the alpha update runs (line 576)
AlphaUpdated == arg.pinUpdate # 0

\* Lines 576-591
UpdateAlpha ==
  /\ prog = "cDPeco" /\ pc = "alpha"
  /\ IF AlphaUpdated
     THEN \E l \in LVals, u \in UVals :
            LET rate == AlphaRate(l)
                dtemp1 == QDiv(QSub(QAdd(arg.a0, QInt(nstar)), QInt(1)),
                               QMul(QInt(t_samp), rate))
                shape == IF QLt(u, dtemp1)
                         THEN QAdd(arg.a0, QInt(nstar))
                         ELSE QSub(QAdd(arg.a0, QInt(nstar)), QInt(1))
            IN  alpha' \in rgamma(shape, QRecip(rate))
     ELSE alpha' = alpha
  /\ pc' = "store"
  /\ UNCHANGED <<prog, arg, heap, rng, sortC_read, qq, bvars, svars, main_loop, i, W, Wstar, n_grid, W1g, W2g,
                 prob_grid_cum, dtemp, j, mu, Sigma, InvSigma, C, nstar, sortC,
                 indexC, itempA, itempS, itempC, pdSa, pdSn, mu_mix, ndraw,
                 flushAt, polls, itempM, itempW, ivars>>

\* arr[idx] = v on an output array
Put(arr, idx, v) == [k \in (DOMAIN arr) \cup {idx} |-> IF k = idx THEN v ELSE arr[k]]

\* Faulty variant: the burn-in test is strict
FlushDueLate == main_loop > arg.burn_in /\ itempC + 1 = arg.nth

\* main_loop >= *burn_in, then itempC++ and itempC == nth (lines 594-596)
FlushDue == main_loop >= arg.burn_in /\ itempC + 1 = arg.nth

\* Whether a flush writes pdSa and pdSn (line 597)
StoresAlpha == arg.pinUpdate # 0

\* Lines 594-631 and the loop increment of line 338.  The per-unit output
\* arrays are written at itempS, itempS + 1, ...; their contents are not kept.
Store ==
  /\ prog = "cDPeco" /\ pc = "store"
  /\ IF FlushDue
     THEN /\ IF StoresAlpha
             THEN /\ pdSa' = Put(pdSa, itempA, alpha)
                  /\ pdSn' = Put(pdSn, itempA, nstar)
                  /\ itempA' = itempA + 1
             ELSE UNCHANGED <<pdSa, pdSn, itempA>>
          /\ itempS' = itempS + n_samp
          /\ itempC' = 0
          /\ flushAt' = Append(flushAt, main_loop)
     ELSE /\ itempC' = IF main_loop >= arg.burn_in THEN itempC + 1 ELSE itempC
          /\ UNCHANGED <<pdSa, pdSn, itempA, itempS, flushAt>>
  /\ main_loop' = main_loop + 1
  /\ pc' = "loop"
  /\ UNCHANGED <<prog, arg, heap, rng, sortC_read, qq, bvars, svars, i, W, Wstar, n_grid, W1g, W2g, prob_grid_cum,
                 dtemp, j, mu, Sigma, InvSigma, C, nstar, sortC, indexC, alpha,
                 mu_mix, ndraw, polls, itempM, itempW, ivars>>

\* Loop exit and PutRNGstate() (lines 632-635)
Finish ==
  /\ prog = "cDPeco" /\ pc = "loop" /\ main_loop >= arg.n_gen
  /\ pc' = "done"
  /\ rng' = [rng EXCEPT !.put = @ + 1]
  /\ UNCHANGED <<prog, arg, heap, sortC_read, qq, bvars, svars, main_loop, i, W, Wstar, n_grid, W1g, W2g,
                 prob_grid_cum, dtemp, j, mu, Sigma, InvSigma, C, nstar, sortC,
                 indexC, alpha, itempA, itempS, itempC, pdSa, pdSn, mu_mix,
                 ndraw, flushAt, polls, itempM, itempW, ivars>>

NextDP ==
  \/ Setup \/ Iterate \/ LatentUnit \/ UpdateX1 \/ UpdateX0 \/ SweepUnit
  \/ RemixSort \/ RemixGroup \/ UpdateAlpha \/ Store \/ Finish

(***************************************************************************)
(* cBase2C (src/src/gibbsBase2C.c)                                         *)
(***************************************************************************)
BaseArgs ==
  {[n_samp |-> n, n_col |-> c, n_gen |-> g, burn_in |-> b, nth |-> t] :
     n \in 1..2, c \in 2..3, g \in 0..MaxGen, b \in 0..MaxGen, t \in 1..MaxNth}

InitBase ==
  /\ prog = "cBase2C"
  /\ arg \in {a \in BaseArgs : a.burn_in <= a.n_gen}
  /\ heap = V(QInt(0))
  /\ pc = "start"
  /\ main_loop = 0 /\ i = 0
  /\ W = Idle /\ Wstar = Idle
  /\ n_grid = Idle /\ W1g = Idle /\ W2g = Idle
  /\ prob_grid_cum = Idle /\ dtemp = QInt(0) /\ j = 0
  /\ mu = Idle /\ Sigma = Idle /\ InvSigma = Idle
  /\ C = Idle /\ nstar = 0 /\ sortC = Idle /\ indexC = Idle
  /\ alpha = QInt(1)
  /\ itempA = 0 /\ itempS = 0 /\ itempC = 0
  /\ pdSa = Idle /\ pdSn = Idle
  /\ mu_mix = Idle /\ ndraw = Idle /\ flushAt = <<>> /\ polls = 0
  /\ itempM = 0 /\ itempW = 0
  /\ IntIdle
  /\ RestIdle

\* if (k > 100000) error(...)   (line 117)
RetryCap == 100000

\* Lines 86-103: GetRNGstate() (line 87), X and the bounds on U
BaseSetup ==
  /\ prog = "cBase2C" /\ pc = "start"
  /\ rng' = [rng EXCEPT !.get = @ + 1]
  /\ i' = 0
  /\ pc' = "init"
  /\ UNCHANGED <<prog, arg, heap, sortC_read, qq, bvars, svars, main_loop, W,
                 Wstar, n_grid, W1g, W2g, prob_grid_cum, dtemp, j, mu, Sigma,
                 InvSigma, C, nstar, sortC, indexC, alpha, itempA, itempS,
                 itempC, itempM, itempW, pdSa, pdSn, mu_mix, ndraw, flushAt,
                 polls, ivars>>

\* How many of the first draws of rDirich for a unit break one of its bounds
\* before the first draw that fits all of them
RejectVals == {0, 1, RetryCap - 1, RetryCap, RetryCap + 1}

\* k when the loop of lines 109-119 ends, r being the number of leading draws
\* that break a bound.  Every pass draws, counts the broken bounds, increments
\* k and calls error() when k > 100000, whatever the count of that pass was;
\* the loop ends normally after the first pass whose draw fits.  So passes
\* 1..r reject, and the loop ends in pass r + 1 or in pass 100001, whichever
\* comes first.
DrawsMade(r) == IF r + 1 <= RetryCap THEN r + 1 ELSE RetryCap + 1

\* The draw of the last pass fits all bounds
LastDrawFits(r) == DrawsMade(r) = r + 1

\* The accepted draw dvtemp of a unit: a point of the simplex
DirichDraw(c) == [jc \in 0..(c - 1) |-> Q(1, c)]

\* W[i][j] = dvtemp[j]*Y[i]/X[i][j]  (line 121), for data with Y[i] = X[i][j]
BaseW(c) == [jc \in 0..(c - 1) |-> V(DirichDraw(c)[jc])]

\* Lines 108-124 for one unit i: the rejection sampler, then W and Wstar
BaseInitUnit ==
  /\ prog = "cBase2C" /\ pc = "init" /\ i < arg.n_samp
  /\ \E r \in RejectVals :
       /\ k_draw' = DrawsMade(r)
       /\ itemp' = IF LastDrawFits(r) THEN 0 ELSE 1
       /\ IF DrawsMade(r) > RetryCap
          THEN /\ pc' = "error"
               /\ UNCHANGED <<i, W, Wstar>>
          ELSE /\ W' = Put(W, i, BaseW(arg.n_col))
               /\ Wstar' = Put(Wstar, i,
                               [jc \in 0..(arg.n_col - 1) |-> Logit(BaseW(arg.n_col)[jc])])
               /\ i' = i + 1
               /\ pc' = IF i + 1 < arg.n_samp THEN "init" ELSE "prior"
  /\ UNCHANGED <<prog, arg, heap, rng, sortC_read, qq, svars, main_loop,
                 n_grid, W1g, W2g, prob_grid_cum, dtemp, j, mu, Sigma,
                 InvSigma, C, nstar, sortC, indexC, alpha, itempA, itempS,
                 itempC, itempM, itempW, pdSa, pdSn, mu_mix, ndraw, flushAt,
                 polls, ivars>>

\* Lines 126-138: the prior and the initial mu and Sigma; the loops leave
\* itemp = n_col * n_col and k = n_col
BasePrior ==
  /\ prog = "cBase2C" /\ pc = "prior"
  /\ k_draw' = arg.n_col
  /\ itemp' = arg.n_col * arg.n_col
  /\ pc' = "loop"
  /\ UNCHANGED <<prog, arg, heap, rng, sortC_read, qq, svars, dvars, ivars>>

BaseIterate ==
  /\ prog = "cBase2C" /\ pc = "loop" /\ main_loop < arg.n_gen
  /\ pc' = "gibbs"
  /\ UNCHANGED <<prog, arg, heap, rng, sortC_read, qq, bvars, svars, dvars, ivars>>

\* Lines 143-150: rMHrc for every unit, then NIWupdate
BaseGibbs ==
  /\ prog = "cBase2C" /\ pc = "gibbs"
  /\ \E th \in ThetaVals : mu' = th /\ Sigma' = th /\ InvSigma' = th
  /\ pc' = "store"
  /\ UNCHANGED <<prog, arg, heap, rng, sortC_read, qq, bvars, svars, main_loop, i, W, Wstar, n_grid, W1g, W2g,
                 prob_grid_cum, dtemp, j, C, nstar, sortC, indexC, alpha,
                 itempA, itempS, itempC, itempM, itempW, pdSa, pdSn, mu_mix,
                 ndraw, flushAt, polls, ivars>>

\* Entries of the upper triangle of Sigma written by lines 156-161
UpperTriangle(c) == (c * (c + 1)) \div 2

\* Lines 153-167
BaseStore ==
  /\ prog = "cBase2C" /\ pc = "store"
  /\ IF FlushDue
     THEN /\ itempM' = itempM + arg.n_col
          /\ itempS' = itempS + UpperTriangle(arg.n_col)
          /\ itempW' = itempW + arg.n_samp * arg.n_col
          /\ itempC' = 0
          /\ flushAt' = Append(flushAt, main_loop)
     ELSE /\ itempC' = IF main_loop >= arg.burn_in THEN itempC + 1 ELSE itempC
          /\ UNCHANGED <<itempM, itempS, itempW, flushAt>>
  /\ pc' = "poll"
  /\ UNCHANGED <<prog, arg, heap, rng, sortC_read, qq, bvars, svars, main_loop, i, W, Wstar, n_grid, W1g, W2g,
                 prob_grid_cum, dtemp, j, mu, Sigma, InvSigma, C, nstar, sortC,
                 indexC, alpha, itempA, pdSa, pdSn, mu_mix, ndraw, polls, ivars>>

\* R_CheckUserInterrupt() (line 174) and the loop increment: the call does
\* not return when an interrupt is pending.
BasePoll ==
  /\ prog = "cBase2C" /\ pc = "poll"
  /\ polls' = polls + 1
  /\ \E pending \in BOOLEAN :
       IF pending
       THEN pc' = "interrupted" /\ main_loop' = main_loop
       ELSE pc' = "loop" /\ main_loop' = main_loop + 1
  /\ UNCHANGED <<prog, arg, heap, rng, sortC_read, qq, bvars, svars, i, W, Wstar, n_grid, W1g, W2g, prob_grid_cum,
                 dtemp, j, mu, Sigma, InvSigma, C, nstar, sortC, indexC, alpha,
                 itempA, itempS, itempC, itempM, itempW, pdSa, pdSn, mu_mix,
                 ndraw, flushAt, ivars>>

\* Loop exit and PutRNGstate (lines 175-181)
BaseFinish ==
  /\ prog = "cBase2C" /\ pc = "loop" /\ main_loop >= arg.n_gen
  /\ pc' = "done"
  /\ rng' = [rng EXCEPT !.put = @ + 1]
  /\ UNCHANGED <<prog, arg, heap, sortC_read, qq, bvars, svars, dvars, ivars>>

NextBase ==
  \/ BaseSetup \/ BaseInitUnit \/ BasePrior \/ BaseIterate \/ BaseGibbs \/ BaseStore \/ BasePoll \/ BaseFinish

Init == InitDP \/ InitBase

Next == NextDP \/ NextBase

Spec == Init /\ [][Next]_vars

(***************************************************************************)
(* paramIntegration (src/src/fintegrate.c, lines 226-249)                  *)
(***************************************************************************)
MaxIer == 6    \* Rdqags reports ier in 0..6

EstVals == {Q(1, 2), QInt(1), QInt(9999)}

InitInt ==
  /\ prog = "paramIntegration"
  /\ arg \in [f : {"NormConstT", "SuffExp"}, suff : 0..7]
  /\ heap = V(QInt(0))
  /\ pc = "start"
  /\ main_loop = 0 /\ i = 0
  /\ W = Idle /\ Wstar = Idle
  /\ n_grid = Idle /\ W1g = Idle /\ W2g = Idle
  /\ prob_grid_cum = Idle /\ dtemp = QInt(0) /\ j = 0
  /\ mu = Idle /\ Sigma = Idle /\ InvSigma = Idle
  /\ C = Idle /\ nstar = 0 /\ sortC = Idle /\ indexC = Idle
  /\ alpha = QInt(1)
  /\ itempA = 0 /\ itempS = 0 /\ itempC = 0
  /\ pdSa = Idle /\ pdSn = Idle
  /\ mu_mix = Idle /\ ndraw = Idle /\ flushAt = <<>> /\ polls = 0
  /\ itempM = 0 /\ itempW = 0
  /\ result = QInt(9999) /\ ier = 0 /\ ret = Idle /\ diag = 0
  /\ stdin \in {"empty", "line", "eof"}
  /\ RestIdle

\* Rdqags(f, ex, ...) (lines 235-236): leaves an estimate and a status
Quadrature ==
  /\ prog = "paramIntegration" /\ pc = "start"
  /\ result' \in EstVals
  /\ ier' \in 0..MaxIer
  /\ pc' = "check"
  /\ UNCHANGED <<prog, arg, heap, rng, sortC_read, qq, bvars, svars, dvars, ret, diag, stdin>>

\* if (ier==0) return result;   (line 240)
ReturnClean ==
  /\ prog = "paramIntegration" /\ pc = "check" /\ ier = 0
  /\ ret' = <<result>>
  /\ pc' = "returned"
  /\ UNCHANGED <<prog, arg, heap, rng, sortC_read, qq, bvars, svars, dvars, result, ier, diag, stdin>>

\* Rprintf("Integration error ...")   (lines 242-243)
Diagnose ==
  /\ prog = "paramIntegration" /\ pc = "check" /\ ier # 0
  /\ diag' = diag + 1
  /\ pc' = "scanf"
  /\ UNCHANGED <<prog, arg, heap, rng, sortC_read, qq, bvars, svars, dvars, result, ier, ret, stdin>>

\* scanf("Hit enter to continue %c", &ch) (line 245) reads the console: it
\* comes back once input is there or the stream has ended, and waits until then.
ScanfReady == stdin # "empty"

Scanf ==
  /\ prog = "paramIntegration" /\ pc = "scanf"
  /\ ScanfReady
  /\ stdin' = IF stdin = "eof" THEN "eof" ELSE "empty"
  /\ pc' = "return"
  /\ UNCHANGED <<prog, arg, heap, rng, sortC_read, qq, bvars, svars, dvars, result, ier, ret, diag>>

\* return result;   (line 246)
ReturnAfterDiag ==
  /\ prog = "paramIntegration" /\ pc = "return"
  /\ ret' = <<result>>
  /\ pc' = "returned"
  /\ UNCHANGED <<prog, arg, heap, rng, sortC_read, qq, bvars, svars, dvars, result, ier, diag, stdin>>

\* The user types a line at the console
UserTypes ==
  /\ prog = "paramIntegration" /\ stdin = "empty" /\ pc # "returned"
  /\ stdin' = "line"
  /\ UNCHANGED <<prog, arg, heap, rng, sortC_read, qq, bvars, svars, pc, dvars, result, ier, ret, diag>>

NextInt == Quadrature \/ ReturnClean \/ Diagnose \/ Scanf \/ ReturnAfterDiag \/ UserTypes

SpecInt == InitInt /\ [][NextInt]_vars

(***************************************************************************)
(* The parametrised integrand (src/src/fintegrate.c, lines 92-159, 194-209 *)
(* and 260-303)                                                            *)
(***************************************************************************)
tol0 == Q(1, 10000)      \* double tol0=0.0001;   (line 263)
tol1 == Q(9999, 10000)   \* double tol1=0.9999;   (line 264)

\* setBounds (lines 260-303): Wbounds[0] = (w1_lb, w1_ub), Wbounds[1] =
\* (w2_lb, w2_ub) of the case with margins X and Y
setBounds(Xc, Yc) ==
  LET one_X == QSub(QInt(1), Xc)
      ub1 == QDiv(QSub(Yc, QMul(one_X, QInt(0))), Xc)
      w1_ub == IF QGt(ub1, tol1) THEN QInt(1) ELSE ub1
      lb1 == QDiv(QSub(Yc, QMul(one_X, QInt(1))), Xc)
      w1_lb == IF QLt(lb1, tol0) THEN QInt(0) ELSE lb1
      ub2 == QSub(QDiv(Yc, one_X), QDiv(QMul(Xc, QInt(0)), one_X))
      w2_ub == IF QGt(ub2, tol1) THEN QInt(1) ELSE ub2
      lb2 == QSub(QDiv(Yc, one_X), QDiv(QMul(Xc, QInt(1)), one_X))
      w2_lb == IF QLt(lb2, tol0) THEN QInt(0) ELSE lb2
  IN  Pair(Pair(w1_lb, w1_ub), Pair(w2_lb, w2_ub))

\* W1 of getW1starFromT before the logit (line 197)
W1FromT(tt, cp) ==
  QAdd(QMul(QSub(cp.Wbounds[0][1], cp.Wbounds[0][0]), tt), cp.Wbounds[0][0])

\* Faulty variant: the intercept is the lower bound, as the comment of line
\* 203 has it
W2FromTLower(tt, cp) ==
  QAdd(QMul(QSub(cp.Wbounds[1][0], cp.Wbounds[1][1]), tt), cp.Wbounds[1][0])

\* W2 of getW2starFromT before the logit (line 205)
W2FromT(tt, cp) ==
  QAdd(QMul(QSub(cp.Wbounds[1][0], cp.Wbounds[1][1]), tt), cp.Wbounds[1][1])

\* if (W==1 || W==0) *imposs=1;   (lines 198 and 206)
Imposs(w) == w = QInt(1) \/ w = QInt(0)

\* getW1starFromT / getW2starFromT: the value returned
StarOf(w) == IF Imposs(w) THEN V(w) ELSE Logit(V(w))

\* v * d for a tagged value v and a plain d; a product that has no closed
\* form is opaque
Scale(v, d) ==
  IF IsPlain(v) THEN V(QMul(Rat(v), d))
  ELSE IF v[1] = "logit" /\ Rat(v) = Q(1, 2) THEN V(QInt(0))
  ELSE <<"opaque", 0, 0>>

\* The tags SuffExp has a branch for (lines 142-153)
Recognised(suff) == suff \in 0..7

\* The value lines 141-154 leave in t[ii] for a feasible node: dp is
\* density*pfact (line 141), dl is dMVN(...)*pfact (line 151)
Integrand(suff, W1s, W2s, dp, dl) ==
  IF suff = 0 THEN Scale(W1s, dp)
  ELSE IF suff = 1 THEN Scale(W2s, dp)
  ELSE IF suff = 2 THEN Scale(W1s, Rat(Scale(W1s, dp)))
  ELSE IF suff = 3 THEN Scale(W1s, Rat(Scale(W2s, dp)))
  ELSE IF suff = 4 THEN Scale(W2s, Rat(Scale(W2s, dp)))
  ELSE IF suff = 5 THEN Scale(InvLogit(W1s), dp)
  ELSE IF suff = 6 THEN Scale(InvLogit(W2s), dp)
  ELSE IF suff = 7 THEN V(dl)
  ELSE V(dp)

\* else if (suff!=-1) Rprintf("Error Suff= %d",suff);   (line 154)
PrintsError(suff) == ~Recognised(suff) /\ suff # -1

SuffVals == -2..8                      \* tags handed to SuffExp
TVals == {QInt(0), Q(1, 2), QInt(1)}   \* quadrature nodes
DensVals == {Q(1, 2), QInt(2)}         \* values of a density times pfact
XcVals == {Q(1, 4), Q(1, 2), Q(3, 4)}
YcVals == {QInt(0), Q(1, 4), Q(9999, 20000), Q(1, 2), Q(19999, 40000), Q(20001, 40000),
           Q(3, 4), QInt(1)}
NNodes == 2                            \* nodes per call of the integrand

InitSuff ==
  /\ prog = "SuffExp"
  /\ arg \in [X : XcVals, Y : YcVals, suff : SuffVals,
               t : [0..(NNodes - 1) -> TVals]]
  /\ heap = V(QInt(0))
  /\ pc = "start"
  /\ main_loop = 0 /\ i = 0
  /\ W = Idle /\ Wstar = Idle
  /\ n_grid = Idle /\ W1g = Idle /\ W2g = Idle
  /\ prob_grid_cum = Idle /\ dtemp = QInt(0) /\ j = 0
  /\ mu = Idle /\ Sigma = Idle /\ InvSigma = Idle
  /\ C = Idle /\ nstar = 0 /\ sortC = Idle /\ indexC = Idle
  /\ alpha = QInt(1)
  /\ itempA = 0 /\ itempS = 0 /\ itempC = 0
  /\ pdSa = Idle /\ pdSn = Idle
  /\ mu_mix = Idle /\ ndraw = Idle /\ flushAt = <<>> /\ polls = 0
  /\ itempM = 0 /\ itempW = 0
  /\ IntIdle
  /\ RestIdle

\* The caller fills the case record and calls setBounds; Rdqags then hands
\* the nodes to SuffExp
SetBounds ==
  /\ prog = "SuffExp" /\ pc = "start"
  /\ caseP' = [X |-> arg.X, Y |-> arg.Y, suff |-> arg.suff,
               Wbounds |-> setBounds(arg.X, arg.Y)]
  /\ t_node' = arg.t
  /\ ii' = 0
  /\ Wt' = <<>>
  /\ pc' = "nodes"
  /\ UNCHANGED <<prog, arg, heap, rng, sortC_read, qq, bvars, dvars, ivars>>

\* Lines 128-156 for one node ii.  Wt records the pair the parametrisation
\* maps the node to (lines 197 and 205).
SuffNode ==
  /\ prog = "SuffExp" /\ pc = "nodes" /\ ii < NNodes
  /\ LET w1 == W1FromT(t_node[ii], caseP)
         w2 == W2FromT(t_node[ii], caseP)
         imposs == Imposs(w1) \/ Imposs(w2)
     IN  /\ Wt' = Append(Wt, <<w1, w2>>)
         /\ IF imposs
            THEN /\ t_node' = [t_node EXCEPT ![ii] = V(QInt(0))]
                 /\ diag' = diag
            ELSE /\ \E dp \in DensVals, dl \in DensVals :
                      t_node' = [t_node EXCEPT ![ii] =
                                   Integrand(caseP.suff, StarOf(w1), StarOf(w2), dp, dl)]
                 /\ diag' = IF PrintsError(caseP.suff) THEN diag + 1 ELSE diag
  /\ ii' = ii + 1
  /\ pc' = IF ii + 1 < NNodes THEN "nodes" ELSE "free"
  /\ UNCHANGED <<prog, arg, heap, rng, sortC_read, qq, bvars, dvars, caseP,
                 result, ier, ret, stdin>>

\* Lines 157-159: the work arrays are freed and SuffExp returns
SuffReturn ==
  /\ prog = "SuffExp" /\ pc = "free"
  /\ pc' = "returned"
  /\ UNCHANGED <<prog, arg, heap, rng, sortC_read, qq, bvars, dvars, ivars, svars>>

NextSuff == SetBounds \/ SuffNode \/ SuffReturn

SpecSuff == InitSuff /\ [][NextSuff]_vars

(***************************************************************************)
(* Properties                                                              *)
(***************************************************************************)
DP == prog = "cDPeco"

Labels == {C[u] : u \in Units}

\* C1: after every remix pass of cDPeco the labels take exactly the values
\* 0..nstar-1 and every unit holds the parameter drawn in that remix for the
\* cluster its label names.
C1_RemixDense ==
  (DP /\ pc \in {"alpha", "store"}) =>
     /\ Labels = 0..(nstar - 1)
     /\ Len(mu_mix) = nstar
     /\ \A u \in Units :
          /\ mu[u] = mu_mix[C[u] + 1]
          /\ Sigma[u] = mu_mix[C[u] + 1]
          /\ InvSigma[u] = mu_mix[C[u] + 1]

\* A remix that renumbered labels with gaps into several clusters, one of them
\* with more than one unit.
C1_Witness ==
  /\ DP /\ pc = "alpha"
  /\ 1 < nstar /\ nstar < t_samp
  /\ \E k \in 1..t_samp : sortC[k - 1] > k - 1

\* C2 as stated: 1 <= nstar <= t_samp at every point of a cDPeco run.
C2_Original == (DP /\ pc # "start") => (1 <= nstar /\ nstar <= t_samp)

\* C2 as amended: 1 <= nstar <= t_samp at initialisation and from the end of
\* each remix pass to the start of the next sweep; inside the sweep nstar is
\* at most t_samp plus the number of units already swept, and the remix pass
\* counts up from 0 to at most t_samp.
C2_NstarRange ==
  DP =>
    /\ pc \in {"loop", "latent", "x1", "x0", "alpha", "store", "done"}
         => (1 <= nstar /\ nstar <= t_samp)
    /\ pc = "sweep" => (1 <= nstar /\ nstar <= t_samp + i)
    /\ pc = "remix" => (1 <= nstar /\ nstar <= 2 * t_samp)
    /\ pc = "remixloop" => (0 <= nstar /\ nstar <= i /\ i <= t_samp)

\* A sweep in which new tables took nstar above t_samp, and a remix pass that
\* brought it back to fewer clusters than units.
C2_Witness ==
  /\ DP /\ pc = "alpha" /\ nstar < t_samp
  /\ \E u \in Units : sortC[u] >= t_samp

\* Iterations whose storage step has run
Stored ==
  IF prog = "cBase2C" /\ pc \in {"poll", "interrupted"} THEN main_loop + 1 ELSE main_loop

FlushesBy(n) == IF n <= arg.burn_in THEN 0 ELSE (n - arg.burn_in) \div arg.nth

\* C3: with burn-in b and thinning N the driver flushes exactly at the 0-based
\* iterations b+N-1, b+2N-1, ..., floor((n_gen-b)/N) times in a whole run, and
\* every flush appends n_samp entries to each per-unit output array (n_samp
\* rows of n_col entries in cBase2C).
C3_FlushSchedule ==
  pc \notin {"start", "error"} =>
    /\ Len(flushAt) = FlushesBy(Stored)
    /\ \A k \in 1..Len(flushAt) : flushAt[k] = arg.burn_in + k * arg.nth - 1
    /\ pc = "done" => Len(flushAt) = (arg.n_gen - arg.burn_in) \div arg.nth
    /\ DP => itempS = arg.n_samp * Len(flushAt)
    /\ prog = "cBase2C" =>
         /\ itempW = arg.n_samp * arg.n_col * Len(flushAt)
         /\ itempM = arg.n_col * Len(flushAt)
         /\ itempS = UpperTriangle(arg.n_col) * Len(flushAt)

\* A finished run of five iterations with burn-in 1 and thinning 2, flushed
\* at iterations 2 and 4.
C3_Witness ==
  /\ DP /\ pc = "done"
  /\ arg.burn_in = 1 /\ arg.nth = 2 /\ arg.n_gen = 5
  /\ flushAt = <<2, 4>>

\* C4: with the alpha update disabled, every stored iteration still has its
\* nstar in the nstar output and the value 1.0 in the alpha output.
C4_Original ==
  (DP /\ arg.pinUpdate = 0) =>
     \A k \in 0..(Len(flushAt) - 1) :
        /\ k \in DOMAIN pdSn
        /\ k \in DOMAIN pdSa
        /\ pdSa[k] = QInt(1)

Tomo(u) == OnTomoLine(X[u])

\* C5 as stated: a unit whose X_i is 0 or 1 gets no grid and no grid draw, and
\* for X_i = 0 its W1 stays at the sentinel 0.000001.
C5_Original ==
  (DP /\ pc # "start") =>
     \A u \in 0..(n_samp - 1) :
        X[u][0] \in {QInt(0), QInt(1)} =>
          /\ n_grid[u] = 0
          /\ ndraw[u] = 0
          /\ X[u][0] = QInt(0) => W[u][0] = V(LowSentinel)

\* C5 as amended: a unit whose Y_i is 0 or 1 gets no grid and no grid draw in
\* any iteration; for Y_i = 0 both of its W stay at 0.000001 and for Y_i = 1
\* at 0.999999 for the whole run.
C5_DegenerateBypass ==
  (DP /\ pc # "start") =>
     \A u \in 0..(n_samp - 1) :
        X[u][1] \in {QInt(0), QInt(1)} =>
          /\ n_grid[u] = 0
          /\ DOMAIN W1g[u] = {} /\ DOMAIN W2g[u] = {}
          /\ ndraw[u] = 0
          /\ X[u][1] = QInt(0) => (W[u][0] = V(LowSentinel) /\ W[u][1] = V(LowSentinel))
          /\ X[u][1] = QInt(1) => (W[u][0] = V(HighSentinel) /\ W[u][1] = V(HighSentinel))

\* The end of a run in which a unit with Y = 0 sat beside a unit that was
\* drawn from its grid.
C5_Witness ==
  /\ DP /\ pc = "done" /\ main_loop >= 1
  /\ \E u, v \in 0..(n_samp - 1) : X[u][1] = QInt(0) /\ ndraw[v] > 0

X1Slots == {n_samp + k : k \in 0..(x1_samp - 1)}

X0Slots == {n_samp + x1_samp + k : k \in 0..(x0_samp - 1)}

\* C6: the x0 update stores each draw in the x0 unit's own slot, sets W there
\* to its inverse logit, and changes no entry of an x1 unit.
C6_Original ==
  [][(DP /\ pc = "x0" /\ arg.x0 = 1) =>
       /\ \A u \in X1Slots : Wstar'[u] = Wstar[u] /\ W'[u] = W[u]
       /\ \A u \in X0Slots :
            /\ Wstar'[u][0] \in ZVals
            /\ W'[u][0] = InvLogit(Wstar'[u][0])]_vars

\* |Y - (X*w1 + (1-X)*w2)| < 1e-6, without multiplying by 1e6
AccountingHolds(Xi, w1, w2) ==
  LET e == QSub(Xi[1], QAdd(QMul(Xi[0], w1), QMul(QSub(QInt(1), Xi[0]), w2)))
  IN  IsFinite(e) /\ Abs(e[1]) <= (e[2] - 1) \div 1000000

NonDegenerate(Xi) == InUnit(Xi[0]) /\ OnTomoLine(Xi)

\* C7: for every unit with 0 < X < 1 and Y not 0 or 1, every grid point and
\* the pair held after every latent draw satisfy the accounting identity to
\* within 1e-6.
C7_AccountingIdentity ==
  (DP /\ pc # "start") =>
     \A u \in 0..(n_samp - 1) :
        NonDegenerate(X[u]) =>
          /\ \A g \in 0..(n_grid[u] - 1) : AccountingHolds(X[u], W1g[u][g], W2g[u][g])
          /\ ndraw[u] > 0 => AccountingHolds(X[u], Rat(W[u][0]), Rat(W[u][1]))

\* A draw from a grid that was shifted by a residual.
C7_Witness ==
  /\ DP /\ pc # "start"
  /\ \E u \in 0..(n_samp - 1) :
       /\ NonDegenerate(X[u]) /\ ndraw[u] > 0
       /\ n_grid[u] = 3 /\ Resid(X[u]) # QInt(0)
       /\ W[u][0] # V(W1g[u][0])

\* The unit whose grid draw was the last step
JustDrawn == DP /\ pc \in {"latent", "x1"} /\ i > 0 /\ Tomo(i - 1)

\* C8: whenever the total grid weight is positive, the normalised cumulative
\* weights are non-decreasing and end at 1, and the draw lands on the one
\* index in 0..n_grid-1 that is the first whose cumulative weight is not below
\* the uniform variate.
C8_InverseCdf ==
  (JustDrawn /\ ~IsNaN(prob_grid_cum[n_grid[i - 1] - 1])) =>
     LET n == n_grid[i - 1]
     IN  /\ DOMAIN prob_grid_cum = 0..(n - 1)
         /\ \A k \in 1..(n - 1) : ~QLt(prob_grid_cum[k], prob_grid_cum[k - 1])
         /\ prob_grid_cum[n - 1] = QInt(1)
         /\ 0 <= j /\ j < n
         /\ ~QLt(prob_grid_cum[j], dtemp)
         /\ \A k \in 0..(j - 1) : QLt(prob_grid_cum[k], dtemp)
         /\ W[i - 1] = Pair(V(W1g[i - 1][j]), V(W2g[i - 1][j]))

\* A draw that passed over lighter indices and stopped on an inner index
\* whose cumulative weight equals the variate.
C8_Witness ==
  /\ JustDrawn /\ n_grid[i - 1] = 4
  /\ ~IsNaN(prob_grid_cum[3])
  /\ j = 1 /\ prob_grid_cum[1] = dtemp /\ QLt(QInt(0), prob_grid_cum[0])

\* C9: every completed outer iteration is followed by exactly one interrupt
\* poll before the next one starts, and no poll falls inside an iteration.
C9_Original ==
  /\ pc \notin {"start", "error", "interrupted"} => polls = main_loop
  /\ pc = "interrupted" => polls = main_loop + 1

\* C10: paramIntegration returns the estimate for every status, prints no
\* diagnostic for status 0 and exactly one otherwise, and never waits.
C10_Original ==
  prog = "paramIntegration" =>
    /\ pc = "returned" =>
         (ret = <<result>> /\ diag = (IF ier = 0 THEN 0 ELSE 1))
    /\ ~(pc = "scanf" /\ ~ScanfReady)

\* A node SuffExp has evaluated and found feasible
FeasibleDone(n) ==
  /\ n < ii
  /\ ~Imposs(Wt[n + 1][1]) /\ ~Imposs(Wt[n + 1][2])

\* C11: for every feasible quadrature node, a tag that is not one of the
\* recognised kinds 0..7 makes SuffExp emit a diagnostic and leave zero as the
\* integrand value of the node, and a recognised tag never emits the diagnostic.
C11_Original ==
  (prog = "SuffExp" /\ pc # "start") =>
     \A n \in 0..(NNodes - 1) :
        FeasibleDone(n) =>
          IF Recognised(caseP.suff)
          THEN diag = 0
          ELSE diag > 0 /\ t_node[n] = V(QInt(0))

\* C12: cBase2C aborts with the "cannot start" error for a unit exactly when
\* the rejection sampler went over the retry cap without a draw that fits all
\* bounds of the unit: at the abort the last draw made breaks a bound, and a
\* unit whose last draw fits has its W and Wstar initialised.
C12_Original ==
  prog = "cBase2C" =>
     /\ pc = "error" => (k_draw > RetryCap /\ itemp > 0)
     /\ (pc \in {"init", "prior"} /\ i > 0) =>
          (itemp = 0 /\ (i - 1) \in DOMAIN W /\ (i - 1) \in DOMAIN Wstar)

\* The run of a driver has ended
Ended == pc \in {"done", "error", "interrupted"}

\* C13: in both drivers the random-stream state is read exactly once at entry
\* and written back exactly once at exit, on every path by which the run ends,
\* the start-up abort included.
C13_Original ==
  prog \in {"cDPeco", "cBase2C"} =>
     /\ rng.get = (IF pc = "start" THEN 0 ELSE 1)
     /\ rng.put = (IF Ended THEN 1 ELSE 0)

\* C14: alpha is strictly positive in every state of cDPeco: it starts at 1,
\* and with a0 > 0, b0 > 0 and 1 <= nstar <= t_samp every alpha update draws
\* from a Gamma with positive shape and positive rate (a draw with a
\* non-positive shape or rate would leave 0 or NaN).
C14_AlphaPositive == DP => QGt(alpha, QInt(0))

\* An alpha update with a single cluster has replaced the initial value.
C14_Witness ==
  /\ DP /\ pc = "store" /\ AlphaUpdated
  /\ nstar = 1 /\ t_samp = 2
  /\ alpha # QInt(1)

\* The phase a position of cDPeco belongs to: 1 the latent-pair update, 2 the
\* clustering sweep and the remix pass, 3 the alpha update, 4 the storage
\* flush, 0 the loop test between two iterations
Phase(p) ==
  IF p \in {"latent", "x1", "x0"} THEN 1
  ELSE IF p \in {"sweep", "remix", "remixloop"} THEN 2
  ELSE IF p = "alpha" THEN 3
  ELSE IF p = "store" THEN 4
  ELSE 0

\* One step of an outer iteration keeps the order of the phases
PhaseStep ==
  /\ pc = "loop" => (pc' \in {"latent", "done"} /\ main_loop' = main_loop)
  /\ pc' = "latent" => (pc \in {"loop", "latent"}
                          /\ i' = (IF pc = "loop" THEN 0 ELSE i + 1))
  /\ pc = "latent" => (pc' \in {"latent", "x1"} /\ i' = i + 1
                         /\ (pc' = "x1" <=> i' = n_samp))
  /\ pc = "x1" => pc' = "x0"
  /\ pc = "x0" => (pc' = "sweep" /\ i' = 0)
  /\ pc = "sweep" => (pc' \in {"sweep", "remix"} /\ i' = i + 1
                        /\ (pc' = "remix" <=> i' = t_samp))
  /\ pc = "remix" => pc' = "remixloop"
  /\ pc = "remixloop" => pc' \in {"remixloop", "alpha"}
  /\ pc = "alpha" => (pc' = "store" /\ (~AlphaUpdated => alpha' = alpha))
  /\ pc # "alpha" => alpha' = alpha
  /\ pc = "store" => (pc' = "loop" /\ main_loop' = main_loop + 1
                        /\ (flushAt' # flushAt <=> FlushDue))
  /\ pc # "store" => (main_loop' = main_loop /\ flushAt' = flushAt)
  /\ Phase(pc') \in {Phase(pc), (Phase(pc) + 1) % 5}

\* C15: within every outer iteration of cDPeco the phases come in the order
\* latent-pair update (grid units in ascending order, then the x1 units, then
\* the x0 units), clustering sweep over units 0..t_samp-1 in ascending order
\* followed by the remix pass, alpha update (alpha changes only there, and
\* only when the update is enabled), storage flush (only when due); each
\* phase is passed once per iteration and the iteration counter advances only
\* after the storage phase.
C15_PhaseOrder == [][(DP /\ pc \notin {"start", "done"}) => PhaseStep]_vars

\* The storage phase of the second iteration of a run with two units and the
\* alpha update enabled, with a flush due.
C15_Witness ==
  /\ DP /\ pc = "store" /\ main_loop = 1
  /\ t_samp = 2 /\ AlphaUpdated /\ FlushDue

\* The scan of a sweep step stopped at the first index whose cumulative
\* weight is not below the uniform variate, inside 0..t_samp-1
UrnStopsFirst ==
  /\ 0 <= j' /\ j' < t_samp
  /\ \A m \in 0..(j' - 1) : QGt(dtemp', qq'[m])
  /\ ~QGt(dtemp', qq'[j'])

\* The sweep step drew from the posterior baseline ("new table")
DrewNew == nstar' = nstar + 1

\* C16 as stated: the candidates of the urn of unit i are the other units
\* followed by the "new" branch in the last position, and the drawn index is
\* the first whose cumulative weight exceeds the uniform draw, in 0..t_samp-1.
C16_Original ==
  [][(DP /\ pc = "sweep") => (UrnStopsFirst /\ (DrewNew <=> j' = t_samp - 1))]_vars

\* C16: in the urn of unit i the candidates are enumerated by unit index
\* 0..t_samp-1, the "new" branch standing at position i itself (the unit's own
\* slot), and the drawn index is the first whose cumulative weight is not
\* below the uniform draw, in 0..t_samp-1; the baseline draw is made exactly
\* when the drawn index is i.
C16_UrnDraw ==
  [][(DP /\ pc = "sweep") => (UrnStopsFirst /\ (DrewNew <=> j' = i))]_vars

\* The first of two or more units has just drawn the "new" branch, which is
\* not the last position of its urn.
C16_Witness ==
  /\ DP /\ pc = "sweep" /\ i = 1 /\ t_samp >= 2
  /\ qq # Idle /\ j = 0
  /\ C[0] = nstar - 1
  /\ \A u \in Units \ {0} : C[u] # C[0]

\* C17: after the latent-pair update of every iteration of cDPeco, for every
\* unit of every kind and each link selector, both coordinates of Wstar are
\* the selected link transform of the unit's current W.
C17_Original ==
  (DP /\ pc = "sweep" /\ i = 0) =>
     \A u \in Units : \A c \in 0..1 :
        Wstar[u][c] = LinkW(arg.link, W[u][c], Wstar[u][c])

\* Units that hold the same label hold the same parameters
SameLabelSameParams ==
  \A u, v \in Units :
     C[u] = C[v] => (mu[u] = mu[v] /\ Sigma[u] = Sigma[v] /\ InvSigma[u] = InvSigma[v])

\* C18: in every state of cDPeco between two unit updates of the clustering
\* sweep and between two group updates of the remix pass, units with the same
\* label hold identical (mu, Sigma, InvSigma); during the sweep every label in
\* use is below nstar, the next "new table" label; during the remix pass the
\* units of the groups already renumbered hold labels below nstar and the
\* units still to be renumbered hold labels that are not below nstar.
C18_SharedLabelSharedParams ==
  (DP /\ pc # "start") =>
     /\ SameLabelSameParams
     /\ pc = "sweep" => \A u \in Units : C[u] < nstar
     /\ pc = "remixloop" =>
          \A p \in Units :
             IF p < i THEN C[indexC[p]] < nstar ELSE C[indexC[p]] >= nstar

\* In the middle of a remix pass over three units: one group renumbered, and
\* a group still to come whose old label was handed out by the sweep.
C18_Witness ==
  /\ DP /\ pc = "remixloop" /\ t_samp = 3
  /\ 0 < i /\ i < t_samp
  /\ \E p \in Units : p >= i /\ C[indexC[p]] >= t_samp

\* C19: during the remix pass every read of sortC uses an index in
\* 0..t_samp-1; the scan of a group never evaluates sortC at index t_samp.
C19_Original == DP => \A x \in sortC_read : 0 <= x /\ x < t_samp

\* |Y - (X*w1 + (1-X)*w2)| < 1/inv, without multiplying by inv
AccountingWithin(Xc, Yc, w1, w2, inv) ==
  LET e == QSub(Yc, QAdd(QMul(Xc, w1), QMul(QSub(QInt(1), Xc), w2)))
  IN  IsFinite(e) /\ Abs(e[1]) <= (e[2] - 1) \div inv

\* w is a number of [0,1]
InClosedUnit(w) == IsFinite(w) /\ ~QLt(w, QInt(0)) /\ ~QGt(w, QInt(1))

\* Every node mapped so far lies in the unit square and on the tomography
\* line to within 1/inv
OnSegment(inv) ==
  \A n \in 1..Len(Wt) :
     /\ Wt[n][1] = W1FromT(arg.t[n - 1], caseP)
     /\ Wt[n][2] = W2FromT(arg.t[n - 1], caseP)
     /\ InClosedUnit(Wt[n][1]) /\ InClosedUnit(Wt[n][2])
     /\ AccountingWithin(caseP.X, caseP.Y, Wt[n][1], Wt[n][2], inv)

\* C20 as stated: for 0 < X < 1 and 0 <= Y <= 1 and bounds set by setBounds,
\* every t in [0,1] is mapped to a pair (W1(t), W2(t)) of the unit square that
\* satisfies the accounting identity to within 1e-6.
C20_Original == (prog = "SuffExp" /\ pc # "start") => OnSegment(1000000)

\* C20: for 0 < X < 1 and 0 <= Y <= 1 and bounds set by setBounds, every t in
\* [0,1] is mapped to the pair W1(t) = (W1_ub - W1_lb)*t + W1_lb,
\* W2(t) = (W2_lb - W2_ub)*t + W2_ub, which lies in the unit square and
\* satisfies the accounting identity to within 1e-4, the tolerance by which
\* setBounds snaps a bound to 0 or 1.
C20_ParamOnSegment == (prog = "SuffExp" /\ pc # "start") => OnSegment(10000)

\* Both nodes of a case whose bounds were snapped (Y/X within 1e-4 of 1) have
\* been mapped, one of them an end point of the segment.
C20_Witness ==
  /\ prog = "SuffExp" /\ pc = "returned"
  /\ caseP.X = Q(1, 2) /\ caseP.Y = Q(19999, 40000)
  /\ Len(Wt) = NNodes
  /\ Wt[1] = <<QInt(1), QInt(0)>>

=============================================================================
